---- MODULE Spec2Model ----
(***************************************************************************)
(* Verification model of the Infinite Storage Glitch data plane: the       *)
(* orchestrator's upload and download transactions, the command-line      *)
(* delete, the relational index (files / blocks / chunks), the storage    *)
(* manager with the local backend, and the crypto engine.                 *)
(*                                                                         *)
(* Byte strings are sequences of integers.  A fingerprint (SHA-256) is    *)
(* idealised as a collision-free, self-delimiting encoding of its         *)
(* preimage; random UUIDs and nonces are idealised as fresh values.       *)
(***************************************************************************)
EXTENDS Integers, Sequences, FiniteSets, TLC

VARIABLES
    files,      \* table files: set of FileRecord
    files_seq,  \* AUTOINCREMENT counter of table files
    blocks,     \* table blocks: set of BlockRecord (hash is the primary key)
    chunks,     \* table chunks: sequence of ChunkRecord, position = id
    store,      \* local backend: identifier -> file written under the root
    rng,        \* number of nonces drawn from OsRng so far
    started,    \* number of upload transactions started so far
    now,        \* wall clock, in seconds (Utc::now().timestamp())
    tx,         \* the running upload transaction (locals of Orchestrator::upload)
    result,     \* what the last finished operation returned
    uploaded,   \* per path: arguments and locations of the last successful upload
    backends,   \* StorageManager.backends: the names of the registered backends
    held_block, \* a Block of isg-core held by a caller
    held_file,  \* a File of isg-core held by a caller
    held_enc,   \* a CryptoEngine's key, a plaintext and its EncryptedData held by a caller
    held_shards, \* an ErasureCoder, encoded bytes and their shards held by a caller
    held_encoded \* an encoder, encoded bytes and their EncodedData held by a caller

vars == <<files, files_seq, blocks, chunks, store, rng, started, now, tx, result, uploaded,
          backends, held_block, held_file,
                   held_enc, held_shards, held_encoded>>

---------------------------------------------------------------------------
(* Bounds of the model *)

\* longest short byte string drawn as file content
MaxLen == 1
\* most whole blocks prepended to a short string to make a multi-block file
MaxFullBlocks == 1
\* most upload transactions started in a run
MaxUploads == 2
\* block_size of the upload transaction (1 MiB), scaled down
BlockSize == 48
\* most backends added to a StorageManager
MaxBackends == 3
\* most files written under the root of the local backend by direct calls
MaxObjects == 2
\* most block fingerprints of a File
MaxHashes == 5
\* largest number of data shards and of parity shards of an ErasureCoder
MaxDataShards == 2
MaxParityShards == 2
\* longest byte string handed to an ErasureCoder
MaxShardData == 3
\* largest width, height and macropixel side of a PixelEncoder
MaxSide == 2
\* largest original_size written into the header of a container by hand
MaxOriginalSize == 2

(* Program constants *)

\* AesNonce = [u8; 12]
NonceLen == 12
\* length of the AES-256-GCM authentication tag appended to the ciphertext
TagLen == 16
\* QREncoder::new(): max_bytes_per_qr
max_bytes_per_qr == 2000

---------------------------------------------------------------------------
(* Byte strings *)

Bytes == {0, 1}

RECURSIVE Sum(_)
Sum(s) == IF s = <<>> THEN 0 ELSE Head(s) + Sum(Tail(s))

RECURSIVE Concat(_)
Concat(ss) == IF ss = <<>> THEN <<>> ELSE Head(ss) \o Concat(Tail(ss))

Repeat(b, n) == [i \in 1..n |-> b]

Min(a, b) == IF a < b THEN a ELSE b

\* data.chunks(block_size)
Chunks(data, n) ==
    [k \in 1..((Len(data) + n - 1) \div n) |-> SubSeq(data, (k - 1) * n + 1, Min(k * n, Len(data)))]

RECURSIVE StringsUpTo(_)
StringsUpTo(n) ==
    IF n = 0 THEN {<<>>}
    ELSE LET shorter == StringsUpTo(n - 1)
         IN  shorter \cup {Append(s, b) : s \in {t \in shorter : Len(t) = n - 1}, b \in Bytes}

\* b"Hello, world!"
Hello == <<72, 101, 108, 108, 111, 44, 32, 119, 111, 114, 108, 100, 33>>

\* Contents of the files uploaded without encryption
Data ==
    {Repeat(0, k * BlockSize) \o s : k \in 0..MaxFullBlocks, s \in StringsUpTo(MaxLen)}

\* Contents of the files uploaded with encryption
DataEnc == {<<>>, Hello, Repeat(0, BlockSize)}

Paths == {"a", "b"}

None == [some |-> FALSE, v |-> <<>>]
Some(x) == [some |-> TRUE, v |-> x]

\* "pw" and "qx"
Passwords ==
    {<<112, 119>>, <<113, 120>>}

---------------------------------------------------------------------------
(* isg-core: Hash, Block, File *)

\* Hash::from_data: SHA-256, idealised as an injective tagging of the preimage
Hash(data) == <<-1>> \o data \o <<-2>>

\* Block::new / Block::from_data
Block(data) == [hash |-> Hash(data), data |-> data, size |-> Len(data), locations |-> <<>>]

\* a verify that compares the recorded size only
VerifySizeOnly(b) == Len(b.data) = b.size

\* Block::verify
verify(b) == Hash(b.data) = b.hash

\* an add_location that pushes without looking
AddLocationAlways(b, location) == [b EXCEPT !.locations = Append(@, location)]

\* Block::add_location
add_location(b, location) ==
    IF \E k \in 1..Len(b.locations) : b.locations[k] = location
    THEN b
    ELSE [b EXCEPT !.locations = Append(@, location)]

\* one pass over the level that hashes every pair smaller element first
RECURSIVE MerkleLevelUnordered(_)
MerkleLevelUnordered(level) ==
    LET pair(a, b) ==
            IF Len(a) < Len(b) \/ (Len(a) = Len(b) /\ Sum(a) <= Sum(b))
            THEN Hash(a \o b) ELSE Hash(b \o a)
    IN  IF level = <<>> THEN <<>>
        ELSE IF Len(level) = 1 THEN <<pair(level[1], level[1])>>
        ELSE <<pair(level[1], level[2])>> \o MerkleLevelUnordered(SubSeq(level, 3, Len(level)))

\* one pass of `for chunk in current_level.chunks(2)`
RECURSIVE MerkleLevel(_)
MerkleLevel(level) ==
    IF level = <<>> THEN <<>>
    ELSE IF Len(level) = 1 THEN <<Hash(level[1] \o level[1])>>
    ELSE <<Hash(level[1] \o level[2])>> \o MerkleLevel(SubSeq(level, 3, Len(level)))

\* `while current_level.len() > 1`
RECURSIVE MerkleReduce(_)
MerkleReduce(level) ==
    IF Len(level) > 1 THEN MerkleReduce(MerkleLevel(level)) ELSE level[1]

\* a root that is the first fingerprint of the sequence
ComputeRootFirst(hashes) ==
    IF hashes = <<>> THEN Hash(<<>>) ELSE hashes[1]

\* File::compute_merkle_root
compute_merkle_root(hashes) ==
    IF hashes = <<>> THEN Hash(<<>>)
    ELSE IF Len(hashes) = 1 THEN hashes[1]
    ELSE MerkleReduce(hashes)

\* File::new
File(path, block_hashes) ==
    [path |-> path, root_hash |-> compute_merkle_root(block_hashes),
     block_hashes |-> block_hashes]

\* File::verify
FileVerify(f) == compute_merkle_root(f.block_hashes) = f.root_hash

---------------------------------------------------------------------------
(* isg-crypto: CryptoEngine *)

\* b"isg_salt_12345678"
Salt == <<105, 115, 103, 95, 115, 97, 108, 116, 95, 49, 50, 51, 52, 53, 54, 55, 56>>

\* CryptoEngine::derive_key_from_password: Argon2id, then SHA-256
derive_key_from_password(password, salt) == Hash(Hash(password \o salt))

\* OsRng.fill_bytes(&mut nonce_bytes): the n-th nonce drawn
Nonce(n) ==
    [i \in 1..NonceLen |->
        IF i = NonceLen THEN n % 256
        ELSE IF i = NonceLen - 1 THEN (n \div 256) % 256
        ELSE 0]

RECURSIVE Xor(_, _)
Xor(a, b) == IF a = 0 /\ b = 0 THEN 0 ELSE ((a + b) % 2) + 2 * Xor(a \div 2, b \div 2)

\* the counter-mode key stream of AES-256-GCM under (key, nonce)
KeyStream(k, i) == (k + i * 7) % 256

\* the GCM authentication tag over the ciphertext body
Tag(key, nonce, body) ==
    LET k == Sum(key)
        m == Sum(nonce) + Sum(body) + Len(body)
    IN  [j \in 1..TagLen |-> (k * j + m + j) % 256]

CipherBody(key, nonce, text) ==
    LET k == Sum(key) * 31 + Sum(nonce) * 17
    IN  [i \in 1..Len(text) |-> Xor(text[i], KeyStream(k, i))]

\* CryptoEngine::encrypt without the tag (a cipher that does not authenticate)
EncryptNoTag(key, nonce, plaintext) ==
    [nonce |-> nonce, ciphertext |-> CipherBody(key, nonce, plaintext)]

\* CryptoEngine::encrypt: EncryptedData {nonce, ciphertext}, ciphertext = body || tag
Encrypt(key, nonce, plaintext) ==
    LET body == CipherBody(key, nonce, plaintext)
    IN  [nonce |-> nonce, ciphertext |-> body \o Tag(key, nonce, body)]

\* a decrypt that does not check the authentication tag
DecryptUnchecked(key, encrypted) ==
    LET ct == encrypted.ciphertext
        n  == Len(ct) - TagLen
    IN  IF n < 0
        THEN [ok |-> FALSE, data |-> <<>>]
        ELSE [ok |-> TRUE, data |-> CipherBody(key, encrypted.nonce, SubSeq(ct, 1, n))]

\* CryptoEngine::decrypt: Ok(plaintext) or Err("Decryption failed")
Decrypt(key, encrypted) ==
    LET ct   == encrypted.ciphertext
        n    == Len(ct) - TagLen
        body == SubSeq(ct, 1, n)
    IN  IF n < 0 \/ SubSeq(ct, n + 1, Len(ct)) # Tag(key, encrypted.nonce, body)
        THEN [ok |-> FALSE, data |-> <<>>]
        ELSE [ok |-> TRUE, data |-> CipherBody(key, encrypted.nonce, body)]

---------------------------------------------------------------------------
(* isg-db: Database *)

\* a lookup that falls back to every row when no row has the path
GetFileOrAny(path) ==
    IF \E f \in files : f.path = path THEN {f \in files : f.path = path} ELSE files

\* Database::get_file_by_path: the rows of files with that path
get_file_by_path(path) == {f \in files : f.path = path}

\* Database::get_block
get_block(hash) == {b \in blocks : b.hash = hash}

\* Database::get_chunks_for_block: SELECT ... FROM chunks WHERE block_hash = ?1
get_chunks_for_block(block_hash) == SelectSeq(chunks, LAMBDA c : c.block_hash = block_hash)

\* an insert_block that is INSERT OR REPLACE INTO blocks
InsertOrReplaceBlock(table, block_record) ==
    {b \in table : b.hash # block_record.hash} \cup {block_record}

\* Database::insert_block: INSERT OR IGNORE INTO blocks
insert_block(table, block_record) ==
    IF \E b \in table : b.hash = block_record.hash THEN table ELSE table \cup {block_record}

\* Database::insert_chunk: id is the AUTOINCREMENT rowid
insert_chunk(table, chunk_record) ==
    Append(table, [chunk_record EXCEPT !.id = Len(table) + 1])

\* Database::insert_file fails on the UNIQUE constraint of files.path
insert_file_rejected(table, file_record) == \E f \in table : f.path = file_record.path

\* Database::insert_file
insert_file(table, seq, file_record) == table \cup {[file_record EXCEPT !.id = seq + 1]}

\* a delete_file whose DELETE has no WHERE clause once the path is found
DeleteEveryFile(table, path) ==
    IF \E f \in table : f.path = path THEN {} ELSE table

\* Database::delete_file: DELETE FROM files WHERE path = ?1
delete_file(table, path) == {f \in table : f.path # path}

---------------------------------------------------------------------------
(* isg-storage: StorageManager and LocalBackend *)

\* LocalBackend::download: fs::read of the file of that identifier
LocalDownload(identifier) ==
    IF identifier \in 1..Len(store) /\ store[identifier].present
    THEN [ok |-> TRUE, data |-> store[identifier].data]
    ELSE [ok |-> FALSE, data |-> <<>>]

\* DiscordBackend::download: an HTTPS GET; the CDN is out of reach of the model
DiscordDownload(identifier) == [ok |-> FALSE, data |-> <<>>]

\* a selection that takes the first registered backend whatever its name
SelectFirstBackend(platform) == IF backends = <<>> THEN 0 ELSE 1

\* the loop of download_from_location: the first backend whose name() is the
\* platform of the location, 0 when there is none
SelectBackend(platform) ==
    IF \E i \in 1..Len(backends) : backends[i] = platform
    THEN CHOOSE i \in 1..Len(backends) :
            backends[i] = platform /\ \A j \in 1..(i - 1) : backends[j] # platform
    ELSE 0

\* StorageManager::download_from_location
download_from_location(location) ==
    LET i == SelectBackend(location.platform)
    IN  IF i = 0 THEN [ok |-> FALSE, data |-> <<>>]
        ELSE IF backends[i] = "local" THEN LocalDownload(location.identifier)
        ELSE DiscordDownload(location.identifier)

\* StorageManager::upload_to_backend: self.backends.get(backend_idx), as the
\* position of the selected backend, 0 when the index is out of range
upload_to_backend(backend_idx) ==
    IF backend_idx + 1 \in 1..Len(backends) THEN backend_idx + 1 ELSE 0

\* a local upload that names the file after its content
LocalUploadByContent(st, block) ==
    IF \E k \in 1..Len(st) : st[k].data = block.data
    THEN [k \in 1..Len(st) |-> IF st[k].data = block.data
                               THEN [data |-> block.data, present |-> TRUE] ELSE st[k]]
    ELSE Append(st, [data |-> block.data, present |-> TRUE])

\* LocalBackend::upload: a file named by a fresh UUID holding block.data()
LocalUpload(st, block) == Append(st, [data |-> block.data, present |-> TRUE])

\* LocalBackend::delete: fs::remove_file
LocalDelete(st, identifier) ==
    IF identifier \in 1..Len(st) THEN [st EXCEPT ![identifier].present = FALSE] ELSE st

\* LocalBackend::delete returns Ok: fs::remove_file found the file
LocalDeleteOk(st, identifier) == identifier \in 1..Len(st) /\ st[identifier].present

---------------------------------------------------------------------------
(* isg-erasure: ErasureCoder *)

\* the field GF(2^8) of reed_solomon_erasure::galois_8 (x^8 + x^4 + x^3 + x^2 + 1),
\* with its tables of the powers and the logarithms of the generator 2:
\* GfExp[i + 1] = 2^i
GfExp == <<
    1, 2, 4, 8, 16, 32, 64, 128, 29, 58, 116, 232, 205, 135, 19, 38, 76, 152, 45, 90, 180,
    117, 234, 201, 143, 3, 6, 12, 24, 48, 96, 192, 157, 39, 78, 156, 37, 74, 148, 53, 106,
    212, 181, 119, 238, 193, 159, 35, 70, 140, 5, 10, 20, 40, 80, 160, 93, 186, 105, 210,
    185, 111, 222, 161, 95, 190, 97, 194, 153, 47, 94, 188, 101, 202, 137, 15, 30, 60, 120,
    240, 253, 231, 211, 187, 107, 214, 177, 127, 254, 225, 223, 163, 91, 182, 113, 226, 217,
    175, 67, 134, 17, 34, 68, 136, 13, 26, 52, 104, 208, 189, 103, 206, 129, 31, 62, 124,
    248, 237, 199, 147, 59, 118, 236, 197, 151, 51, 102, 204, 133, 23, 46, 92, 184, 109,
    218, 169, 79, 158, 33, 66, 132, 21, 42, 84, 168, 77, 154, 41, 82, 164, 85, 170, 73, 146,
    57, 114, 228, 213, 183, 115, 230, 209, 191, 99, 198, 145, 63, 126, 252, 229, 215, 179,
    123, 246, 241, 255, 227, 219, 171, 75, 150, 49, 98, 196, 149, 55, 110, 220, 165, 87,
    174, 65, 130, 25, 50, 100, 200, 141, 7, 14, 28, 56, 112, 224, 221, 167, 83, 166, 81,
    162, 89, 178, 121, 242, 249, 239, 195, 155, 43, 86, 172, 69, 138, 9, 18, 36, 72, 144,
    61, 122, 244, 245, 247, 243, 251, 235, 203, 139, 11, 22, 44, 88, 176, 125, 250, 233,
    207, 131, 27, 54, 108, 216, 173, 71, 142>>

\* GfLog[a] = i with 2^i = a
GfLog == <<
    0, 1, 25, 2, 50, 26, 198, 3, 223, 51, 238, 27, 104, 199, 75, 4, 100, 224, 14, 52, 141,
    239, 129, 28, 193, 105, 248, 200, 8, 76, 113, 5, 138, 101, 47, 225, 36, 15, 33, 53, 147,
    142, 218, 240, 18, 130, 69, 29, 181, 194, 125, 106, 39, 249, 185, 201, 154, 9, 120, 77,
    228, 114, 166, 6, 191, 139, 98, 102, 221, 48, 253, 226, 152, 37, 179, 16, 145, 34, 136,
    54, 208, 148, 206, 143, 150, 219, 189, 241, 210, 19, 92, 131, 56, 70, 64, 30, 66, 182,
    163, 195, 72, 126, 110, 107, 58, 40, 84, 250, 133, 186, 61, 202, 94, 155, 159, 10, 21,
    121, 43, 78, 212, 229, 172, 115, 243, 167, 87, 7, 112, 192, 247, 140, 128, 99, 13, 103,
    74, 222, 237, 49, 197, 254, 24, 227, 165, 153, 119, 38, 184, 180, 124, 17, 68, 146, 217,
    35, 32, 137, 46, 55, 63, 209, 91, 149, 188, 207, 205, 144, 135, 151, 178, 220, 252, 190,
    97, 242, 86, 211, 171, 20, 42, 93, 158, 132, 60, 57, 83, 71, 109, 65, 162, 31, 45, 67,
    216, 183, 123, 164, 118, 196, 23, 73, 236, 127, 12, 111, 246, 108, 161, 59, 82, 41, 157,
    85, 170, 251, 96, 134, 177, 187, 204, 62, 90, 203, 89, 95, 176, 156, 169, 160, 81, 11,
    245, 22, 235, 122, 117, 44, 215, 79, 174, 213, 233, 230, 231, 173, 232, 116, 214, 244,
    234, 168, 80, 88, 175>>

GfMul(a, b) == IF a = 0 \/ b = 0 THEN 0 ELSE GfExp[((GfLog[a] + GfLog[b]) % 255) + 1]

GfInv(a) == GfExp[((255 - GfLog[a]) % 255) + 1]

RECURSIVE GfDot(_, _)
GfDot(row, col) ==
    IF row = <<>> THEN 0
    ELSE Xor(GfMul(Head(row), Head(col)), GfDot(Tail(row), Tail(col)))

\* row s of the systematic generator matrix of the (n + k, n) code: the
\* identity on the data shards, a Cauchy matrix on the parity shards
RsRow(n, s) ==
    [i \in 1..n |->
        IF s <= n THEN (IF i = s THEN 1 ELSE 0)
        ELSE GfInv(Xor(s - 1, i - 1))]

\* the solution x of A x = b over GF(2^8), A square and regular
RECURSIVE GfSolve(_, _)
GfSolve(A, b) ==
    IF A = <<>> THEN <<>>
    ELSE LET m      == Len(A)
             r      == CHOOSE r \in 1..m :
                          A[r][1] # 0 /\ \A q \in 1..(r - 1) : A[q][1] = 0
             inv    == GfInv(A[r][1])
             prow   == [c \in 1..m |-> GfMul(A[r][c], inv)]
             pb     == GfMul(b[r], inv)
             idx(q) == IF q < r THEN q ELSE q + 1
             A2     == [q \in 1..(m - 1) |->
                          [c \in 1..(m - 1) |->
                              Xor(A[idx(q)][c + 1], GfMul(A[idx(q)][1], prow[c + 1]))]]
             b2     == [q \in 1..(m - 1) |-> Xor(b[idx(q)], GfMul(A[idx(q)][1], pb))]
             rest   == GfSolve(A2, b2)
         IN  <<Xor(pb, GfDot(Tail(prow), rest))>> \o rest

\* ReedSolomon::new(data_shards, parity_shards)
RsNewOk(n, k) == n >= 1 /\ k >= 1 /\ n + k <= 256

\* ReedSolomon::encode(&mut shards): fills the parity shards, or fails on
\* shards of length zero
RsEncode(n, k, shards) ==
    LET size == Len(shards[1])
    IN  IF size = 0
        THEN [ok |-> FALSE, shards |-> shards]
        ELSE [ok |-> TRUE,
              shards |-> [s \in 1..(n + k) |->
                            IF s <= n THEN shards[s]
                            ELSE [c \in 1..size |->
                                    GfDot(RsRow(n, s), [i \in 1..n |-> shards[i][c]])]]]

\* the positions of the present shards, in order
Present(shards) == SelectSeq([s \in 1..Len(shards) |-> s], LAMBDA s : shards[s].some)

\* ReedSolomon::reconstruct(&mut shards): fills every missing shard from the
\* first n present ones, or fails when fewer than n are present
RsReconstruct(n, k, shards) ==
    LET present == Present(shards)
    IN  IF Len(present) < n \/ Len(shards[present[1]].v) = 0
        THEN [ok |-> FALSE, shards |-> shards]
        ELSE LET used   == SubSeq(present, 1, n)
                 size   == Len(shards[used[1]].v)
                 A      == [q \in 1..n |-> RsRow(n, used[q])]
                 col(c) == GfSolve(A, [q \in 1..n |-> shards[used[q]].v[c]])
                 cols   == [c \in 1..size |-> col(c)]
             IN  [ok |-> TRUE,
                  shards |-> [s \in 1..(n + k) |->
                                IF shards[s].some THEN shards[s]
                                ELSE Some([c \in 1..size |-> GfDot(RsRow(n, s), cols[c])])]]

\* ErasureCoder::new(n, k).encode(data): Ok(shards) or Err
ErasureEncode(n, k, data) ==
    IF ~RsNewOk(n, k)
    THEN [ok |-> FALSE, err |-> "Failed to create Reed-Solomon encoder", shards |-> <<>>]
    ELSE LET shard_size == (Len(data) + n - 1) \div n
             shard(i)   == LET start == i * shard_size
                               end   == Min((i + 1) * shard_size, Len(data))
                           IN  [c \in 1..shard_size |->
                                  IF start < Len(data) /\ start + c <= end
                                  THEN data[start + c] ELSE 0]
             filled     == [s \in 1..(n + k) |->
                              IF s <= n THEN shard(s - 1) ELSE Repeat(0, shard_size)]
             encoded    == RsEncode(n, k, filled)
         IN  IF encoded.ok
             THEN [ok |-> TRUE, err |-> "", shards |-> encoded.shards]
             ELSE [ok |-> FALSE, err |-> "Failed to encode", shards |-> <<>>]

\* ErasureCoder::reconstruct(shards, original_size): Ok(bytes) or Err
ErasureReconstruct(n, k, shards, original_size) ==
    LET available == Len(Present(shards))
    IN  IF available < n
        THEN [ok |-> FALSE, err |-> "Not enough shards to reconstruct", data |-> <<>>]
        ELSE LET rebuilt == RsReconstruct(n, k, shards)
             IN  IF ~rebuilt.ok
                 THEN [ok |-> FALSE, err |-> "Failed to reconstruct", data |-> <<>>]
                 ELSE LET joined == Concat([i \in 1..n |-> rebuilt.shards[i].v])
                      IN  [ok |-> TRUE, err |-> "",
                           data |-> SubSeq(joined, 1, Min(original_size, Len(joined)))]

---------------------------------------------------------------------------
(* isg-encoders: PixelEncoder and QREncoder *)

\* n.to_le_bytes(), width bytes
RECURSIVE LeBytes(_, _)
LeBytes(n, width) == IF width = 0 THEN <<>> ELSE <<n % 256>> \o LeBytes(n \div 256, width - 1)

\* u32::from_le_bytes / u64::from_le_bytes
RECURSIVE FromLeBytes(_)
FromLeBytes(bytes) == IF bytes = <<>> THEN 0 ELSE Head(bytes) + 256 * FromLeBytes(Tail(bytes))

\* PixelEncoder::new(): block_size 4, resolution (1920, 1080), threshold 128,
\* scaled down to a frame of 2 x 1 macropixels of side 1
DefaultPixelEncoder == [block_size |-> 1, width |-> 2, height |-> 1, threshold |-> 128]

\* PixelEncoder::bits_per_frame
bits_per_frame(enc) == (enc.width \div enc.block_size) * (enc.height \div enc.block_size)

\* PixelEncoder::get_bit: bit bit_index of data, most significant bit first,
\* false past the end
get_bit(data, bit_index) ==
    LET byte_index == bit_index \div 8
        bit_offset == 7 - (bit_index % 8)
    IN  IF byte_index >= Len(data) THEN FALSE
        ELSE (data[byte_index + 1] \div (2 ^ bit_offset)) % 2 = 1

\* PixelEncoder::create_frame with fill_block: an image of the resolution,
\* one macropixel per bit in row-major order, black (0) for 1 and white (255)
\* for 0; a pixel is the value of its red, green and blue channels, and a
\* pixel outside every macropixel keeps the 0 of RgbaImage::new
create_frame(enc, data, bit_index) ==
    LET blocks_x == enc.width \div enc.block_size
        blocks_y == enc.height \div enc.block_size
    IN  [width |-> enc.width, height |-> enc.height,
         pixels |-> [y \in 1..enc.height |-> [x \in 1..enc.width |->
            LET block_x == (x - 1) \div enc.block_size
                block_y == (y - 1) \div enc.block_size
            IN  IF block_x < blocks_x /\ block_y < blocks_y
                THEN (IF get_bit(data, bit_index + block_y * blocks_x + block_x)
                      THEN 0 ELSE 255)
                ELSE 0]]]

\* PixelEncoder::encode_to_frames, for bits_per_frame > 0
encode_to_frames(enc, data) ==
    LET total_bits == Len(data) * 8
        num_frames == (total_bits + bits_per_frame(enc) - 1) \div bits_per_frame(enc)
    IN  [f \in 1..num_frames |-> create_frame(enc, data, (f - 1) * bits_per_frame(enc))]

\* frame.write_to(.., Png): a lossless encoding of the dimensions and the pixels
PngEncode(img) == <<img.width, img.height>> \o Concat(img.pixels)

\* image::load_from_memory_with_format(.., Png)
PngDecode(bytes) ==
    IF Len(bytes) < 2 \/ Len(bytes) # 2 + bytes[1] * bytes[2]
    THEN [ok |-> FALSE, img |-> [width |-> 0, height |-> 0, pixels |-> <<>>]]
    ELSE [ok |-> TRUE,
          img |-> [width |-> bytes[1], height |-> bytes[2],
                   pixels |-> [y \in 1..bytes[2] |-> [x \in 1..bytes[1] |->
                                 bytes[2 + (y - 1) * bytes[1] + x]]]]]

\* the container: count (u32), original size (u64), length-prefixed frames
Container(count, original_size, blobs) ==
    LeBytes(count, 4) \o LeBytes(original_size, 8)
        \o Concat([f \in 1..Len(blobs) |-> LeBytes(Len(blobs[f]), 4) \o blobs[f]])

\* PixelEncoder::encode: Ok(EncodedData.data), or a panic on the division by
\* bits_per_frame = 0
PixelEncode(enc, data) ==
    IF bits_per_frame(enc) = 0
    THEN [ok |-> FALSE, err |-> "panic: attempt to divide by zero", data |-> <<>>]
    ELSE LET frames == encode_to_frames(enc, data)
         IN  [ok |-> TRUE, err |-> "",
              data |-> Container(Len(frames), Len(data),
                                 [f \in 1..Len(frames) |-> PngEncode(frames[f])])]

\* PixelEncoder::read_block: the bit of a macropixel, by the average of the
\* brightness of its pixels inside the frame
read_block(enc, frame, block_x, block_y) ==
    LET start_x == block_x * enc.block_size
        start_y == block_y * enc.block_size
        inside  == {d \in (0..(enc.block_size - 1)) \X (0..(enc.block_size - 1)) :
                       start_x + d[1] < frame.width /\ start_y + d[2] < frame.height}
        cells   == [k \in 1..(enc.block_size * enc.block_size) |->
                       LET dx == (k - 1) % enc.block_size
                           dy == (k - 1) \div enc.block_size
                       IN  IF <<dx, dy>> \in inside
                           THEN LET pixel == frame.pixels[start_y + dy + 1][start_x + dx + 1]
                                IN  (pixel + pixel + pixel) \div 3
                           ELSE 0]
        sum     == Sum(cells)
        count   == Cardinality(inside)
        avg     == IF count > 0 THEN sum \div count ELSE 255
    IN  avg < enc.threshold

\* PixelEncoder::read_frame: the bits of the macropixels of the frame, by the
\* frame's own width and height
read_frame(enc, frame) ==
    LET blocks_x == frame.width \div enc.block_size
        blocks_y == frame.height \div enc.block_size
    IN  [k \in 1..(blocks_x * blocks_y) |->
            read_block(enc, frame, (k - 1) % blocks_x, (k - 1) \div blocks_x)]

\* PixelEncoder::decode_from_frames: the bits of all frames, eight to a byte,
\* most significant first, cut to expected_size
decode_from_frames(enc, frames, expected_size) ==
    LET bits   == Concat([f \in 1..Len(frames) |-> read_frame(enc, frames[f])])
        nbytes == (Len(bits) + 7) \div 8
        byte(k) == Sum([i \in 1..8 |->
                          IF 8 * (k - 1) + i <= Len(bits) /\ bits[8 * (k - 1) + i]
                          THEN 2 ^ (8 - i) ELSE 0])
    IN  [k \in 1..Min(nbytes, expected_size) |-> byte(k)]

\* the loop of PixelEncoder::decode over the frames of the container
RECURSIVE ReadFrames(_, _, _)
ReadFrames(data, cursor, remaining) ==
    IF remaining = 0 THEN [ok |-> TRUE, err |-> "", frames |-> <<>>]
    ELSE IF cursor + 4 > Len(data)
    THEN [ok |-> FALSE, err |-> "Unexpected end of data", frames |-> <<>>]
    ELSE LET frame_size == FromLeBytes(SubSeq(data, cursor + 1, cursor + 4))
             start      == cursor + 4
         IN  IF start + frame_size > Len(data)
             THEN [ok |-> FALSE, err |-> "Frame data truncated", frames |-> <<>>]
             ELSE LET png == PngDecode(SubSeq(data, start + 1, start + frame_size))
                  IN  IF ~png.ok
                      THEN [ok |-> FALSE, err |-> "PNG decoding failed", frames |-> <<>>]
                      ELSE LET rest == ReadFrames(data, start + frame_size, remaining - 1)
                           IN  IF rest.ok
                               THEN [rest EXCEPT !.frames = <<png.img>> \o @]
                               ELSE rest

\* frame_count and original_size of the header of a container
HeaderFrameCount(data) == FromLeBytes(SubSeq(data, 1, 4))
HeaderOriginalSize(data) == FromLeBytes(SubSeq(data, 5, 12))

\* PixelEncoder::decode: Ok(bytes) or Err(Error::Decoding(err))
PixelDecode(enc, data) ==
    IF Len(data) < 12
    THEN [ok |-> FALSE, err |-> "Data too short", data |-> <<>>]
    ELSE LET read == ReadFrames(data, 12, HeaderFrameCount(data))
         IN  IF ~read.ok
             THEN [ok |-> FALSE, err |-> read.err, data |-> <<>>]
             ELSE [ok |-> TRUE, err |-> "",
                   data |-> decode_from_frames(enc, read.frames, HeaderOriginalSize(data))]

\* QREncoder::encode: one barcode per chunk of max_bytes_per_qr bytes (an image
\* that carries the bytes of the chunk), in the container of the pixel encoder
QREncode(data) ==
    LET chunks_ == Chunks(data, max_bytes_per_qr)
    IN  [ok |-> TRUE, err |-> "",
         data |-> Container(Len(chunks_), Len(data),
                            [f \in 1..Len(chunks_) |-> PngEncode([width |-> Len(chunks_[f]), height |-> 1,
                                                 pixels |-> <<chunks_[f]>>])])]

\* QREncoder::decode: not implemented, always Err(Error::Decoding)
QRDecode(data) ==
    [ok |-> FALSE, err |-> "QR decoding not yet implemented - requires QR scanner library",
     data |-> <<>>]

---------------------------------------------------------------------------
(* State *)

Idle ==
    [pc |-> "idle", file_path |-> "", data |-> <<>>, original_size |-> 0,
     encrypted |-> FALSE, password |-> None, blocks |-> <<>>, i |-> 0,
     timestamp |-> 0, location |-> 0, locs |-> <<>>]

NoResult ==
    [op |-> "none", path |-> "", password |-> None, ok |-> TRUE, err |-> "",
     stage |-> "", at |-> 0, data |-> <<>>, fetched |-> <<>>, blocks |-> <<>>,
     backend |-> 0, location |-> 0, arg |-> <<>>]

NotUploaded == [valid |-> FALSE, data |-> <<>>, password |-> None, blocks |-> <<>>, locs |-> <<>>]

\* an empty index, an empty root directory, nothing called yet
Fresh ==
    /\ files = {}
    /\ files_seq = 0
    /\ blocks = {}
    /\ chunks = <<>>
    /\ store = <<>>
    /\ rng = 0
    /\ started = 0
    /\ now = 0
    /\ tx = Idle
    /\ result = NoResult
    /\ uploaded = [p \in Paths |-> NotUploaded]
    /\ held_block = Block(<<>>)
    /\ held_file = File("", <<>>)
    /\ held_enc = [key |-> <<>>, plaintext |-> <<>>,
                   returned |-> [nonce |-> <<>>, ciphertext |-> <<>>],
                   data |-> [nonce |-> <<>>, ciphertext |-> <<>>]]
    /\ held_shards = [data_shards |-> 0, parity_shards |-> 0, data |-> <<>>, shards |-> <<>>]
    /\ held_encoded = [strategy |-> "none", encoder |-> DefaultPixelEncoder,
                       data |-> <<>>, encoded |-> <<>>]

\* the command line: a fresh index and a manager with the local backend added
Init ==
    /\ Fresh
    /\ backends = <<"local">>

---------------------------------------------------------------------------
(* isg-orchestrator: Orchestrator::upload, one action per step between the *)
(* points where the transaction can fail or be suspended                   *)

\* Step 3 of upload: one Block per chunk of the buffer
SplitIntoBlocks(data) ==
    LET cs == Chunks(data, BlockSize) IN [k \in 1..Len(cs) |-> Block(cs[k])]

\* Step 1 of upload: nonce || ciphertext
Serialize(encrypted_data) == encrypted_data.nonce \o encrypted_data.ciphertext

\* the upload returns Err(err) out of `stage`
UploadFailed(stage, err) ==
    /\ tx' = Idle
    /\ result' = [NoResult EXCEPT !.op = "upload", !.path = tx.file_path, !.ok = FALSE,
                                  !.err = err, !.stage = stage, !.at = tx.i,
                                  !.blocks = [k \in 1..Len(tx.blocks) |-> tx.blocks[k].hash]]

\* an upload that takes a missing password for the empty one
UploadStartDefaultPassword(file_path, data, options) ==
    /\ tx.pc = "idle"
    /\ started < MaxUploads
    /\ started' = started + 1
    /\ options.encoding = "none"
    /\ LET key    == derive_key_from_password(options.password.v, Salt)
           buffer == IF options.encrypt
                     THEN Serialize(Encrypt(key, Nonce(rng), data))
                     ELSE data
           bs     == SplitIntoBlocks(buffer)
       IN  /\ result' = NoResult
           /\ tx' = [Idle EXCEPT !.pc = IF bs = <<>> THEN "insert_file" ELSE "insert_block",
                                 !.file_path = file_path,
                                 !.data = data,
                                 !.original_size = Len(data),
                                 !.encrypted = options.encrypt,
                                 !.password = IF options.encrypt THEN options.password ELSE None,
                                 !.blocks = bs]
           /\ rng' = IF options.encrypt THEN rng + 1 ELSE rng
           /\ UNCHANGED <<files, files_seq, blocks, chunks, store, now, uploaded,
                          backends, held_block, held_file,
                          held_enc, held_shards, held_encoded>>

\* upload, lines 96-172: optional encryption, no encoding, split into blocks
UploadStart(file_path, data, options) ==
    /\ tx.pc = "idle"
    /\ started < MaxUploads
    /\ started' = started + 1
    /\ options.encoding = "none"
    /\ IF options.encrypt /\ ~options.password.some
       THEN /\ result' = [NoResult EXCEPT !.op = "upload", !.path = file_path, !.ok = FALSE,
                                          !.err = "Password required for encryption",
                                          !.stage = "encrypt"]
            /\ UNCHANGED <<files, files_seq, blocks, chunks, store, rng, now, tx, uploaded,
                           backends, held_block, held_file,
                   held_enc, held_shards, held_encoded>>
       ELSE LET key    == derive_key_from_password(options.password.v, Salt)
                buffer == IF options.encrypt
                          THEN Serialize(Encrypt(key, Nonce(rng), data))
                          ELSE data
                bs     == SplitIntoBlocks(buffer)
            IN  /\ result' = NoResult
                /\ tx' = [Idle EXCEPT !.pc = IF bs = <<>> THEN "insert_file" ELSE "insert_block",
                                      !.file_path = file_path,
                                      !.data = data,
                                      !.original_size = Len(data),
                                      !.encrypted = options.encrypt,
                                      !.password = IF options.encrypt THEN options.password ELSE None,
                                      !.blocks = bs]
                /\ rng' = IF options.encrypt THEN rng + 1 ELSE rng
                /\ UNCHANGED <<files, files_seq, blocks, chunks, store, now, uploaded,
                               backends, held_block, held_file,
                   held_enc, held_shards, held_encoded>>

\* a loop of step 4 that walks the blocks from the last to the first
CurrentBlockReversed == tx.blocks[Len(tx.blocks) - tx.i]

\* the block the loop of step 4 is at
CurrentBlock == tx.blocks[tx.i + 1]

\* upload, lines 177-190: build the BlockRecord and insert it
InsertBlockStep ==
    /\ tx.pc = "insert_block"
    /\ \E db_ok \in BOOLEAN :
        IF db_ok
        THEN /\ blocks' = insert_block(blocks,
                    [hash |-> CurrentBlock.hash, size |-> Len(CurrentBlock.data),
                     encoding_strategy |-> "none", created_at |-> now])
             /\ tx' = [tx EXCEPT !.pc = "backend_upload", !.timestamp = now]
             /\ UNCHANGED result
        ELSE /\ UploadFailed("insert_block", "Database error")
             /\ UNCHANGED blocks
    /\ UNCHANGED <<files, files_seq, chunks, store, rng, started, now, uploaded,
                   backends, held_block, held_file,
                   held_enc, held_shards, held_encoded>>

\* the loop of step 4 moves to the next block, or leaves for step 5
NextPc(i, n) == IF i < n THEN "insert_block" ELSE "insert_file"

\* upload, line 193 with the backend's error logged and the loop continued
BackendUploadStepSwallow ==
    /\ tx.pc = "backend_upload"
    /\ \/ /\ 1 \in DOMAIN backends
          /\ store' = LocalUpload(store, CurrentBlock)
          /\ tx' = [tx EXCEPT !.pc = "insert_chunk", !.location = Len(store) + 1]
          /\ UNCHANGED result
       \/ /\ UNCHANGED <<store, result>>
          /\ tx' = [tx EXCEPT !.pc = NextPc(tx.i + 1, Len(tx.blocks)), !.i = tx.i + 1]
    /\ UNCHANGED <<files, files_seq, blocks, chunks, rng, started, now, uploaded,
                   backends, held_block, held_file,
                   held_enc, held_shards, held_encoded>>

\* upload, line 193 with the backend's error replaced by a default Location
BackendUploadStepDefaultLocation ==
    /\ tx.pc = "backend_upload"
    /\ \/ /\ 1 \in DOMAIN backends
          /\ store' = LocalUpload(store, CurrentBlock)
          /\ tx' = [tx EXCEPT !.pc = "insert_chunk", !.location = Len(store) + 1]
          /\ UNCHANGED result
       \/ /\ UNCHANGED <<store, result>>
          /\ tx' = [tx EXCEPT !.pc = "insert_chunk", !.location = 0]
    /\ UNCHANGED <<files, files_seq, blocks, chunks, rng, started, now, uploaded,
                   backends, held_block, held_file,
                   held_enc, held_shards, held_encoded>>

\* upload, line 193: self.storage.upload_to_backend(0, block).await?
\* The call returns a Location, returns an error, or is cancelled while
\* suspended (the file may or may not have been written by then).
BackendUploadStep ==
    /\ tx.pc = "backend_upload"
    /\ \/ /\ 1 \in DOMAIN backends
          /\ store' = LocalUpload(store, CurrentBlock)
          /\ tx' = [tx EXCEPT !.pc = "insert_chunk", !.location = Len(store) + 1]
          /\ UNCHANGED result
       \/ /\ UNCHANGED store
          /\ UploadFailed("backend_upload", "Storage error")
       \/ /\ store' \in {store, LocalUpload(store, CurrentBlock)}
          /\ UploadFailed("backend_upload", "cancelled")
    /\ UNCHANGED <<files, files_seq, blocks, chunks, rng, started, now, uploaded,
                   backends, held_block, held_file,
                   held_enc, held_shards, held_encoded>>

\* upload, lines 196-207: build the ChunkRecord from the Location and insert it
InsertChunkStep ==
    /\ tx.pc = "insert_chunk"
    /\ \E db_ok \in BOOLEAN :
        IF db_ok
        THEN /\ chunks' = insert_chunk(chunks,
                    [id |-> 0, block_hash |-> CurrentBlock.hash, platform |-> backends[1],
                     location |-> tx.location, is_parity |-> FALSE,
                     uploaded_at |-> tx.timestamp])
             /\ tx' = [tx EXCEPT !.pc = NextPc(tx.i + 1, Len(tx.blocks)),
                                 !.i = tx.i + 1,
                                 !.locs = Append(tx.locs, tx.location)]
             /\ UNCHANGED result
        ELSE /\ UploadFailed("insert_chunk", "Database error")
             /\ UNCHANGED chunks
    /\ UNCHANGED <<files, files_seq, blocks, store, rng, started, now, uploaded,
                   backends, held_block, held_file,
                   held_enc, held_shards, held_encoded>>

\* b"empty"
EmptyTag == <<101, 109, 112, 116, 121>>

\* upload, lines 211-215: the root fingerprint written to the FileRecord
RootHash(bs) == IF bs = <<>> THEN Hash(EmptyTag) ELSE bs[1].hash

\* upload, lines 217-238: write the FileRecord and return the UploadResult
InsertFileStep ==
    /\ tx.pc = "insert_file"
    /\ LET file_record ==
              [id |-> 0, path |-> tx.file_path, root_hash |-> RootHash(tx.blocks),
               size |-> tx.original_size, created_at |-> now, modified_at |-> now,
               accessed_at |-> now]
       IN \E db_ok \in BOOLEAN :
            IF ~db_ok
            THEN /\ UploadFailed("insert_file", "Database error")
                 /\ UNCHANGED <<files, files_seq, uploaded>>
            ELSE IF ~insert_file_rejected(files, file_record)
            THEN /\ files' = insert_file(files, files_seq, file_record)
                 /\ files_seq' = files_seq + 1
                 /\ tx' = Idle
                 /\ result' = [NoResult EXCEPT !.op = "upload", !.path = tx.file_path,
                                    !.stage = "done",
                                    !.blocks = [k \in 1..Len(tx.blocks) |-> tx.blocks[k].hash]]
                 /\ uploaded' = [uploaded EXCEPT ![tx.file_path] =
                        [valid |-> TRUE, data |-> tx.data, password |-> tx.password,
                         blocks |-> [k \in 1..Len(tx.blocks) |-> tx.blocks[k].hash],
                         locs |-> tx.locs]]
            ELSE /\ UploadFailed("insert_file", "Database error: UNIQUE constraint failed")
                 /\ UNCHANGED <<files, files_seq, uploaded>>
    /\ UNCHANGED <<blocks, chunks, store, rng, started, now,
                   backends, held_block, held_file,
                   held_enc, held_shards, held_encoded>>

---------------------------------------------------------------------------
(* Orchestrator::download and the command line's delete: whole handlers *)

\* the Location rebuilt from a ChunkRecord
LocationOf(chunk) == [platform |-> chunk.platform, identifier |-> chunk.location]

\* the loop over chunks: one backend download per chunk, in the order of the query
Fetch(chs) == [k \in 1..Len(chs) |-> download_from_location(LocationOf(chs[k]))]

\* index of the first chunk whose download fails, 0 when none does
FirstFailure(dl) ==
    IF \E k \in 1..Len(dl) : ~dl[k].ok
    THEN CHOOSE k \in 1..Len(dl) : ~dl[k].ok /\ \A j \in 1..(k - 1) : dl[j].ok
    ELSE 0

\* download, lines 316-334: split nonce and ciphertext and decrypt
DecryptBlob(password, data) ==
    IF Len(data) < NonceLen
    THEN [ok |-> FALSE, err |-> "Invalid encrypted data", data |-> <<>>]
    ELSE LET key == derive_key_from_password(password, Salt)
             dec == Decrypt(key, [nonce |-> SubSeq(data, 1, NonceLen),
                                  ciphertext |-> SubSeq(data, NonceLen + 1, Len(data))])
         IN  IF dec.ok
             THEN [ok |-> TRUE, err |-> "", data |-> dec.data]
             ELSE [ok |-> FALSE, err |-> "Crypto error", data |-> <<>>]

\* what Orchestrator::download(file_path, password) returns in the current state
DownloadResult(file_path, password) ==
    LET base == [NoResult EXCEPT !.op = "download", !.path = file_path, !.password = password]
        fail(err, fetched) == [base EXCEPT !.ok = FALSE, !.err = err, !.fetched = fetched]
    IN
    IF get_file_by_path(file_path) = {} THEN fail("File not found", <<>>)
    ELSE LET file  == CHOOSE f \in get_file_by_path(file_path) : TRUE
             chs   == get_chunks_for_block(file.root_hash)
             dl    == Fetch(chs)
             bad   == FirstFailure(dl)
             ids   == [k \in 1..Len(chs) |-> chs[k].location]
             reconstructed_data == Concat([k \in 1..Len(dl) |-> dl[k].data])
         IN  IF chs = <<>> THEN fail("No chunks found for file", <<>>)
             ELSE IF bad # 0 THEN fail("Storage error", SubSeq(ids, 1, bad))
             ELSE IF get_block(file.root_hash) = {} THEN fail("Block metadata not found", ids)
             ELSE IF (CHOOSE b \in get_block(file.root_hash) : TRUE).encoding_strategy # "none"
                  THEN fail("Decoding error", ids)
             ELSE IF password.some
                  THEN LET dec == DecryptBlob(password.v, reconstructed_data)
                       IN  IF dec.ok
                           THEN [base EXCEPT !.data = dec.data, !.fetched = ids]
                           ELSE fail(dec.err, ids)
             ELSE [base EXCEPT !.data = reconstructed_data, !.fetched = ids]

\* Orchestrator::download
Download(file_path, password) ==
    /\ tx.pc = "idle"
    /\ result' = DownloadResult(file_path, password)
    /\ UNCHANGED <<files, files_seq, blocks, chunks, store, rng, started, now, tx, uploaded,
                   backends, held_block, held_file,
                   held_enc, held_shards, held_encoded>>

\* delete that also removes the BlockRecord of the file's root fingerprint
DeleteCascade(path) ==
    /\ tx.pc = "idle"
    /\ LET base == [NoResult EXCEPT !.op = "delete", !.path = path] IN
       IF get_file_by_path(path) = {}
       THEN /\ result' = [base EXCEPT !.ok = FALSE, !.err = "File not found"]
            /\ UNCHANGED <<files, blocks>>
       ELSE LET file == CHOOSE f \in get_file_by_path(path) : TRUE
            IN  /\ files' = delete_file(files, path)
                /\ blocks' = {b \in blocks : b.hash # file.root_hash}
                /\ result' = base
    /\ UNCHANGED <<files_seq, chunks, store, rng, started, now, tx, uploaded,
                   backends, held_block, held_file,
                   held_enc, held_shards, held_encoded>>

\* isg-cli delete: look the file up, touch every chunk of its root fingerprint on
\* the backend, then delete the FileRecord
Delete(path) ==
    /\ tx.pc = "idle"
    /\ LET base == [NoResult EXCEPT !.op = "delete", !.path = path] IN
       IF get_file_by_path(path) = {}
       THEN /\ result' = [base EXCEPT !.ok = FALSE, !.err = "File not found"]
            /\ UNCHANGED files
       ELSE LET file == CHOOSE f \in get_file_by_path(path) : TRUE
                chs  == get_chunks_for_block(file.root_hash)
                ids  == [k \in 1..Len(chs) |-> chs[k].location]
            IN  \E db_ok \in BOOLEAN :
                  IF db_ok
                  THEN /\ files' = delete_file(files, path)
                       /\ result' = [base EXCEPT !.fetched = ids]
                  ELSE /\ result' = [base EXCEPT !.ok = FALSE, !.err = "Database error",
                                                 !.fetched = ids]
                       /\ UNCHANGED files
    /\ UNCHANGED <<files_seq, blocks, chunks, store, rng, started, now, tx, uploaded,
                   backends, held_block, held_file,
                   held_enc, held_shards, held_encoded>>

---------------------------------------------------------------------------
(* Specifications *)

EncodingNone == "none"

\* UploadOptions::default(): no encoding, no encryption
PlainOptions == {[encoding |-> EncodingNone, encrypt |-> FALSE, password |-> None]}

\* "pw"
Pw == <<112, 119>>

\* UploadOptions with encrypt set, with and without a password
EncryptOptions ==
    {[encoding |-> EncodingNone, encrypt |-> TRUE, password |-> pw] : pw \in {None, Some(Pw)}}

PasswordOptions == {None} \cup {Some(p) : p \in Passwords}

UploadPlain == \E p \in Paths, d \in Data, o \in PlainOptions : UploadStart(p, d, o)

UploadEncrypted == \E p \in Paths, d \in DataEnc, o \in EncryptOptions : UploadStart(p, d, o)

DownloadPlain == \E p \in Paths : Download(p, None)

DownloadAny == \E p \in Paths, pw \in PasswordOptions : Download(p, pw)

DeleteAny == \E p \in Paths : Delete(p)

Next ==
    \/ UploadPlain
    \/ InsertBlockStep
    \/ BackendUploadStep
    \/ InsertChunkStep
    \/ InsertFileStep
    \/ DownloadPlain
    \/ DeleteAny

Spec == Init /\ [][Next]_vars

NextEnc ==
    \/ UploadEncrypted
    \/ InsertBlockStep
    \/ BackendUploadStep
    \/ InsertChunkStep
    \/ InsertFileStep
    \/ DownloadAny
    \/ DeleteAny

SpecEnc == Init /\ [][NextEnc]_vars

---------------------------------------------------------------------------
(* The index on its own: Database::insert_block and Database::get_block    *)
(* called directly, as in test_database_operations                         *)

\* the BlockRecords a caller may pass: two fingerprints, each with several
\* sizes, encoding names and creation timestamps
BlockRecords ==
    {[hash |-> Hash(<<d>>), size |-> sz, encoding_strategy |-> e, created_at |-> t] :
        d \in Bytes, sz \in {1, 256}, e \in {"none", "pixel"}, t \in {0, 1234567890}}

\* db.insert_block(&block)
DbInsertBlock(block_record) ==
    /\ \E db_ok \in BOOLEAN :
        IF db_ok
        THEN /\ blocks' = insert_block(blocks, block_record)
             /\ result' = [NoResult EXCEPT !.op = "insert_block", !.arg = block_record]
        ELSE /\ UNCHANGED blocks
             /\ result' = [NoResult EXCEPT !.op = "insert_block", !.arg = block_record,
                                           !.ok = FALSE, !.err = "Database error"]
    /\ UNCHANGED <<files, files_seq, chunks, store, rng, started, now, tx, uploaded,
                   backends, held_block, held_file,
                   held_enc, held_shards, held_encoded>>

\* db.get_block(&hash)
DbGetBlock(hash) ==
    /\ result' = [NoResult EXCEPT !.op = "get_block", !.arg = hash,
                                  !.fetched = IF get_block(hash) = {} THEN <<>>
                                              ELSE <<CHOOSE b \in get_block(hash) : TRUE>>]
    /\ UNCHANGED <<files, files_seq, blocks, chunks, store, rng, started, now, tx, uploaded,
                   backends, held_block, held_file,
                   held_enc, held_shards, held_encoded>>

DbInsertAny == \E r \in BlockRecords : DbInsertBlock(r)

DbGetAny == \E r \in BlockRecords : DbGetBlock(r.hash)

NextDb ==
    \/ DbInsertAny
    \/ DbGetAny

SpecDb == Init /\ [][NextDb]_vars

---------------------------------------------------------------------------
(* The storage layer on its own: a StorageManager to which backends are    *)
(* added, and the backends called through it and directly                  *)

\* name() of the backends of isg-storage
BackendNames == {"local", "discord"}

\* platforms a Location may carry
Platforms == BackendNames \cup {"youtube"}

\* Locations handed to download and delete: returned ones and others
Locations == {[platform |-> p, identifier |-> id] : p \in Platforms, id \in 1..(MaxObjects + 1)}

\* blocks handed to upload
StorageBlocks == {Block(<<>>)} \cup {Block(<<b>>) : b \in Bytes}

StorageFrame ==
    UNCHANGED <<files, files_seq, blocks, chunks, rng, started, now, tx, uploaded,
                held_block, held_file, held_enc, held_shards, held_encoded>>

\* StorageManager::add_backend
AddBackend(name) ==
    /\ Len(backends) < MaxBackends
    /\ backends' = Append(backends, name)
    /\ result' = [NoResult EXCEPT !.op = "add_backend", !.arg = name]
    /\ UNCHANGED store
    /\ StorageFrame

\* LocalBackend::upload called with `base` as the record of the call
LocalUploadCall(base, b) ==
    /\ Len(store) < MaxObjects
    /\ \E fs_ok \in BOOLEAN :
        IF fs_ok
        THEN /\ store' = LocalUpload(store, b)
             /\ result' = [base EXCEPT !.location = Len(store) + 1]
        ELSE /\ UNCHANGED store
             /\ result' = [base EXCEPT !.ok = FALSE, !.err = "Failed to write file"]

\* StorageManager::upload_to_backend(backend_idx, block)
ManagerUpload(backend_idx, b) ==
    /\ LET i    == upload_to_backend(backend_idx)
           base == [NoResult EXCEPT !.op = "upload_to_backend", !.backend = i,
                                    !.arg = [backend_idx |-> backend_idx, block |-> b]]
       IN  IF i = 0
           THEN /\ result' = [base EXCEPT !.ok = FALSE, !.err = "Backend not found"]
                /\ UNCHANGED store
           ELSE IF backends[i] = "local"
           THEN LocalUploadCall(base, b)
           ELSE /\ result' = [base EXCEPT !.ok = FALSE, !.err = "Discord upload failed"]
                /\ UNCHANGED store
    /\ UNCHANGED backends
    /\ StorageFrame

\* StorageManager::download_from_location(location)
ManagerDownload(location) ==
    /\ LET i  == SelectBackend(location.platform)
           dl == download_from_location(location)
       IN  result' = [NoResult EXCEPT !.op = "download_from_location", !.backend = i,
                          !.arg = location, !.ok = dl.ok, !.data = dl.data,
                          !.err = IF i = 0 THEN "No backend can handle this location"
                                  ELSE IF dl.ok THEN "" ELSE "Failed to read file"]
    /\ UNCHANGED <<store, backends>>
    /\ StorageFrame

\* LocalBackend::upload(block)
LocalUploadOp(b) ==
    /\ LocalUploadCall([NoResult EXCEPT !.op = "local_upload", !.arg = b], b)
    /\ UNCHANGED backends
    /\ StorageFrame

\* LocalBackend::download(location)
LocalDownloadOp(location) ==
    /\ LET dl == LocalDownload(location.identifier)
       IN  result' = [NoResult EXCEPT !.op = "local_download", !.arg = location,
                          !.ok = dl.ok, !.data = dl.data,
                          !.err = IF dl.ok THEN "" ELSE "Failed to read file"]
    /\ UNCHANGED <<store, backends>>
    /\ StorageFrame

\* LocalBackend::delete(location)
LocalDeleteOp(location) ==
    /\ store' = LocalDelete(store, location.identifier)
    /\ result' = IF LocalDeleteOk(store, location.identifier)
                 THEN [NoResult EXCEPT !.op = "local_delete", !.arg = location]
                 ELSE [NoResult EXCEPT !.op = "local_delete", !.arg = location,
                                       !.ok = FALSE, !.err = "Failed to delete file"]
    /\ UNCHANGED backends
    /\ StorageFrame

\* DiscordBackend::delete(location): logs a note and returns Ok
DiscordDeleteOp(location) ==
    /\ result' = [NoResult EXCEPT !.op = "discord_delete", !.arg = location]
    /\ UNCHANGED <<store, backends>>
    /\ StorageFrame

AddAnyBackend == \E name \in BackendNames : AddBackend(name)

ManagerUploadAny == \E idx \in 0..MaxBackends, b \in StorageBlocks : ManagerUpload(idx, b)

ManagerDownloadAny == \E l \in Locations : ManagerDownload(l)

LocalUploadAny == \E b \in StorageBlocks : LocalUploadOp(b)

LocalDownloadAny == \E l \in Locations : LocalDownloadOp(l)

LocalDeleteAny == \E l \in Locations : LocalDeleteOp(l)

DiscordDeleteAny == \E l \in Locations : DiscordDeleteOp(l)

\* StorageManager::new(): no backend yet
InitStorage ==
    /\ Fresh
    /\ backends = <<>>

NextStorage ==
    \/ AddAnyBackend
    \/ ManagerUploadAny
    \/ ManagerDownloadAny
    \/ LocalUploadAny
    \/ LocalDownloadAny
    \/ LocalDeleteAny
    \/ DiscordDeleteAny

SpecStorage == InitStorage /\ [][NextStorage]_vars

---------------------------------------------------------------------------
(* isg-core on its own: a File built from a sequence of fingerprints       *)

\* fingerprints of blocks: Hash::from_data of three byte strings
Fingerprints == {Hash(<<>>)} \cup {Hash(<<b>>) : b \in Bytes}

\* the sequences of at most n fingerprints
RECURSIVE HashSeqs(_)
HashSeqs(n) ==
    IF n = 0 THEN {<<>>}
    ELSE LET shorter == HashSeqs(n - 1)
         IN  shorter \cup {Append(h, x) : h \in {t \in shorter : Len(t) = n - 1},
                                           x \in Fingerprints}

CoreFrame ==
    UNCHANGED <<files, files_seq, blocks, chunks, store, rng, started, now, tx, uploaded,
                backends, held_enc, held_shards, held_encoded>>

\* File::new(path, block_hashes, metadata)
FileNew(path, block_hashes) ==
    /\ held_file' = File(path, block_hashes)
    /\ result' = [NoResult EXCEPT !.op = "file_new", !.path = path, !.blocks = block_hashes]
    /\ UNCHANGED held_block
    /\ CoreFrame

\* file.verify()
FileVerifyOp ==
    /\ result' = [NoResult EXCEPT !.op = "file_verify", !.ok = FileVerify(held_file)]
    /\ UNCHANGED <<held_block, held_file>>
    /\ CoreFrame

FileNewAny == \E h \in HashSeqs(MaxHashes) : FileNew("a", h)

NextFile ==
    \/ FileNewAny
    \/ FileVerifyOp

SpecFile == Init /\ [][NextFile]_vars

---------------------------------------------------------------------------
(* isg-core on its own: a Block built from bytes, its public buffer        *)
(* mutated from outside, locations added to it                             *)

\* positions of the bits of a byte that a caller flips
Bits == {0, 7}

\* Locations as Block::add_location compares them: platform, identifier and
\* metadata (StorageMetadata::default() stamps the time of its creation)
BlockLocations ==
    {[platform |-> "local", identifier |-> 1, metadata |-> [uploaded_at |-> 0]],
     [platform |-> "local", identifier |-> 1, metadata |-> [uploaded_at |-> 1]],
     [platform |-> "local", identifier |-> 2, metadata |-> [uploaded_at |-> 0]]}

\* Block::from_data(data)
BlockNew(data) ==
    /\ held_block' = Block(data)
    /\ result' = [NoResult EXCEPT !.op = "block_new", !.data = data]
    /\ UNCHANGED held_file
    /\ CoreFrame

\* block.data[i] ^= 1 << bit
FlipBit(i, bit) ==
    /\ i \in 1..Len(held_block.data)
    /\ held_block' = [held_block EXCEPT !.data[i] = Xor(@, 2 ^ bit)]
    /\ result' = [NoResult EXCEPT !.op = "flip_bit", !.at = i]
    /\ UNCHANGED held_file
    /\ CoreFrame

\* block.verify()
BlockVerifyOp ==
    /\ result' = [NoResult EXCEPT !.op = "verify", !.ok = verify(held_block)]
    /\ UNCHANGED <<held_block, held_file>>
    /\ CoreFrame

\* block.add_location(location)
AddLocation(location) ==
    /\ held_block' = add_location(held_block, location)
    /\ result' = [NoResult EXCEPT !.op = "add_location", !.arg = location]
    /\ UNCHANGED held_file
    /\ CoreFrame

BlockNewAny == \E d \in StringsUpTo(MaxLen) : BlockNew(d)

FlipAnyBit == \E i \in 1..MaxLen, bit \in Bits : FlipBit(i, bit)

AddAnyLocation == \E l \in BlockLocations : AddLocation(l)

NextBlock ==
    \/ BlockNewAny
    \/ FlipAnyBit
    \/ BlockVerifyOp
    \/ AddAnyLocation

SpecBlock == Init /\ [][NextBlock]_vars

---------------------------------------------------------------------------
(* isg-crypto on its own: a CryptoEngine encrypts, the EncryptedData is    *)
(* tampered with, an engine with the same or another key decrypts          *)

\* pub type Key = [u8; 32]
KeyLen == 32

Keys == {Repeat(0, KeyLen), Repeat(1, KeyLen)}

CryptoFrame ==
    UNCHANGED <<files, files_seq, blocks, chunks, store, started, now, tx, uploaded,
                backends, held_block, held_file, held_shards, held_encoded>>

\* CryptoEngine::new(key).encrypt(plaintext)
CryptoEncrypt ==
    \E key \in Keys, plaintext \in StringsUpTo(MaxLen) :
        /\ rng < MaxUploads
        /\ LET e == Encrypt(key, Nonce(rng), plaintext)
           IN  held_enc' = [key |-> key, plaintext |-> plaintext, returned |-> e, data |-> e]
        /\ rng' = rng + 1
        /\ result' = [NoResult EXCEPT !.op = "encrypt", !.arg = key, !.data = plaintext]
        /\ CryptoFrame

\* encrypted.ciphertext[i] ^= 1 << bit, on a copy of what encrypt returned
CryptoFlipBit ==
    \E i \in 1..(MaxLen + TagLen), bit \in Bits :
        /\ held_enc.key # <<>>
        /\ i \in 1..Len(held_enc.returned.ciphertext)
        /\ held_enc' = [held_enc EXCEPT
                           !.data = [held_enc.returned EXCEPT !.ciphertext[i] = Xor(@, 2 ^ bit)]]
        /\ result' = [NoResult EXCEPT !.op = "flip_bit", !.at = i]
        /\ UNCHANGED rng
        /\ CryptoFrame

\* CryptoEngine::new(key).decrypt(&encrypted)
CryptoDecrypt ==
    \E key \in Keys :
        /\ held_enc.key # <<>>
        /\ LET r == Decrypt(key, held_enc.data)
           IN  result' = [NoResult EXCEPT !.op = "decrypt", !.arg = key, !.ok = r.ok,
                                          !.err = IF r.ok THEN "" ELSE "Decryption failed",
                                          !.data = r.data]
        /\ UNCHANGED <<rng, held_enc>>
        /\ CryptoFrame

NextCrypto ==
    \/ CryptoEncrypt
    \/ CryptoFlipBit
    \/ CryptoDecrypt

SpecCrypto == Init /\ [][NextCrypto]_vars

---------------------------------------------------------------------------
(* isg-erasure on its own: an ErasureCoder encodes, shards are lost, the   *)
(* coder reconstructs                                                      *)

ErasureFrame ==
    UNCHANGED <<files, files_seq, blocks, chunks, store, rng, started, now, tx, uploaded,
                backends, held_block, held_file, held_enc, held_encoded>>

\* let shards = ErasureCoder::new(n, k)?.encode(data)?, then
\* shards.into_iter().map(Some).collect()
ErasureEncodeOp ==
    \E n \in 1..MaxDataShards, k \in 0..MaxParityShards,
       data \in StringsUpTo(MaxShardData) :
        /\ LET r == ErasureEncode(n, k, data)
           IN  /\ held_shards' = [data_shards |-> n, parity_shards |-> k, data |-> data,
                                  shards |-> [s \in 1..Len(r.shards) |-> Some(r.shards[s])]]
               /\ result' = [NoResult EXCEPT !.op = "encode", !.arg = <<n, k>>, !.data = data,
                                             !.ok = r.ok, !.err = r.err]
        /\ ErasureFrame

\* shard_opts[i] = None
ErasureDropShard ==
    \E i \in 1..(MaxDataShards + MaxParityShards) :
        /\ i \in 1..Len(held_shards.shards)
        /\ held_shards.shards[i].some
        /\ held_shards' = [held_shards EXCEPT !.shards[i] = None]
        /\ result' = [NoResult EXCEPT !.op = "drop_shard", !.at = i]
        /\ ErasureFrame

\* coder.reconstruct(shard_opts, data.len())
ErasureReconstructOp ==
    /\ held_shards.shards # <<>>
    /\ LET r == ErasureReconstruct(held_shards.data_shards, held_shards.parity_shards,
                                   held_shards.shards, Len(held_shards.data))
       IN  result' = [NoResult EXCEPT !.op = "reconstruct", !.ok = r.ok, !.err = r.err,
                                      !.data = r.data]
    /\ UNCHANGED held_shards
    /\ ErasureFrame

NextErasure ==
    \/ ErasureEncodeOp
    \/ ErasureDropShard
    \/ ErasureReconstructOp

SpecErasure == Init /\ [][NextErasure]_vars

---------------------------------------------------------------------------
(* isg-encoders on its own: a PixelEncoder or a QREncoder encodes, the     *)
(* container is rewritten by hand, an encoder of the same kind decodes     *)

\* block_size, resolution and threshold of the encoders
PixelEncoders ==
    [block_size : 1..MaxSide, width : 1..MaxSide, height : 1..MaxSide,
     threshold : {0, 128}]

\* byte strings handed to encode
PixelInputs == {<<>>, <<1>>, <<128, 1>>}

EncoderFrame ==
    UNCHANGED <<files, files_seq, blocks, chunks, store, rng, started, now, tx, uploaded,
                backends, held_block, held_file, held_enc, held_shards>>

\* encoder.encode(data)
PixelEncodeOp ==
    \E enc \in PixelEncoders, data \in PixelInputs :
        /\ LET r == PixelEncode(enc, data)
           IN  /\ held_encoded' = [strategy |-> "pixel", encoder |-> enc, data |-> data,
                                   encoded |-> r.data]
               /\ result' = [NoResult EXCEPT !.op = "encode", !.arg = enc, !.data = data,
                                             !.ok = r.ok, !.err = r.err]
        /\ EncoderFrame

\* the original_size of the header of the container overwritten
PixelSetOriginalSize ==
    \E n \in 0..MaxOriginalSize :
        /\ held_encoded.strategy = "pixel"
        /\ Len(held_encoded.encoded) >= 12
        /\ held_encoded' = [held_encoded EXCEPT
                               !.encoded = SubSeq(@, 1, 4) \o LeBytes(n, 8) \o SubSeq(@, 13, Len(@))]
        /\ result' = [NoResult EXCEPT !.op = "set_original_size", !.at = n]
        /\ EncoderFrame

\* encoder.decode(&encoded), by an encoder of any parameters
PixelDecodeOp ==
    \E enc \in PixelEncoders :
        /\ held_encoded.strategy = "pixel"
        /\ held_encoded.encoded # <<>>
        /\ LET r == PixelDecode(enc, held_encoded.encoded)
           IN  result' = [NoResult EXCEPT !.op = "decode", !.arg = enc, !.ok = r.ok,
                                          !.err = r.err, !.data = r.data]
        /\ UNCHANGED held_encoded
        /\ EncoderFrame

\* QREncoder::new().encode(data)
QREncodeOp ==
    \E data \in PixelInputs :
        /\ LET r == QREncode(data)
           IN  /\ held_encoded' = [strategy |-> "qr", encoder |-> DefaultPixelEncoder,
                                   data |-> data, encoded |-> r.data]
               /\ result' = [NoResult EXCEPT !.op = "encode", !.data = data,
                                             !.ok = r.ok, !.err = r.err]
        /\ EncoderFrame

\* QREncoder::new().decode(&encoded)
QRDecodeOp ==
    /\ held_encoded.strategy = "qr"
    /\ LET r == QRDecode(held_encoded.encoded)
       IN  result' = [NoResult EXCEPT !.op = "decode", !.ok = r.ok, !.err = r.err,
                                      !.data = r.data]
    /\ UNCHANGED held_encoded
    /\ EncoderFrame

NextEncoders ==
    \/ PixelEncodeOp
    \/ PixelSetOriginalSize
    \/ PixelDecodeOp
    \/ QREncodeOp
    \/ QRDecodeOp

SpecEncoders == Init /\ [][NextEncoders]_vars

---------------------------------------------------------------------------
(* The three tables of the index together: rows are inserted into files,   *)
(* blocks and chunks, and Database::delete_file is called directly         *)

IndexFrame ==
    UNCHANGED <<store, rng, started, now, tx, uploaded, backends, held_block, held_file,
                held_enc, held_shards, held_encoded>>

\* db.insert_file(&file)
DbInsertFile ==
    \E file_record \in
          {[id |-> 0, path |-> p, root_hash |-> Hash(<<0>>), size |-> 1, created_at |-> 0,
            modified_at |-> 0, accessed_at |-> 0] : p \in Paths} :
        /\ files_seq < MaxUploads
        /\ IF insert_file_rejected(files, file_record)
           THEN /\ result' = [NoResult EXCEPT !.op = "insert_file", !.path = file_record.path,
                                  !.ok = FALSE,
                                  !.err = "Database error: UNIQUE constraint failed"]
                /\ UNCHANGED <<files, files_seq>>
           ELSE /\ files' = insert_file(files, files_seq, file_record)
                /\ files_seq' = files_seq + 1
                /\ result' = [NoResult EXCEPT !.op = "insert_file", !.path = file_record.path]
        /\ UNCHANGED <<blocks, chunks>>
        /\ IndexFrame

\* db.insert_chunk(&chunk)
DbInsertChunk ==
    \E chunk_record \in
          {[id |-> 0, block_hash |-> Hash(<<d>>), platform |-> "local", location |-> l,
            is_parity |-> FALSE, uploaded_at |-> 0] : d \in Bytes, l \in 1..MaxObjects} :
        /\ Len(chunks) < MaxUploads
        /\ chunks' = insert_chunk(chunks, chunk_record)
        /\ result' = [NoResult EXCEPT !.op = "insert_chunk", !.arg = chunk_record]
        /\ UNCHANGED <<files, files_seq, blocks>>
        /\ IndexFrame

\* db.delete_file(path)
DbDeleteFile ==
    \E path \in Paths :
        /\ \E db_ok \in BOOLEAN :
            IF db_ok
            THEN /\ files' = delete_file(files, path)
                 /\ result' = [NoResult EXCEPT !.op = "delete_file", !.path = path]
            ELSE /\ UNCHANGED files
                 /\ result' = [NoResult EXCEPT !.op = "delete_file", !.path = path,
                                               !.ok = FALSE, !.err = "Database error"]
        /\ UNCHANGED <<files_seq, blocks, chunks>>
        /\ IndexFrame

\* db.insert_block(&block), of one BlockRecord per fingerprint
DbInsertIndexBlockAny ==
    \E d \in Bytes :
        DbInsertBlock([hash |-> Hash(<<d>>), size |-> 1, encoding_strategy |-> "none",
                       created_at |-> 0])

NextIndex ==
    \/ DbInsertFile
    \/ DbInsertIndexBlockAny
    \/ DbInsertChunk
    \/ DbDeleteFile

SpecIndex == Init /\ [][NextIndex]_vars

---------------------------------------------------------------------------
(* Properties *)

FileOf(p) == CHOOSE f \in get_file_by_path(p) : TRUE

TxHashes == [k \in 1..Len(tx.blocks) |-> tx.blocks[k].hash]

\* every fingerprint of hs was written to the backend at the location of the
\* same position in locs, and a ChunkRecord ties the two together
AllBlocksStored(hs, locs) ==
    /\ Len(locs) = Len(hs)
    /\ \A k \in 1..Len(hs) :
        /\ locs[k] \in 1..Len(store)
        /\ Hash(store[locs[k]].data) = hs[k]
        /\ \E j \in 1..Len(chunks) :
              chunks[j].location = locs[k] /\ chunks[j].block_hash = hs[k]

\* C1: on a fresh index, upload(path, B) without encoding or encryption followed
\* by download(path, no password) succeeds and returns exactly B, for every B
\* (the empty string and files of two or more blocks included).
C1_PlainRoundTrip ==
    (/\ result.op = "download"
     /\ ~result.password.some
     /\ started = 1
     /\ get_file_by_path(result.path) # {})
    => /\ result.ok
       /\ result.data = uploaded[result.path].data

\* C2: after successful uploads to distinct paths, download(p) fetches exactly
\* the chunks of p's own manifest, in manifest order, and returns the bytes
\* uploaded under p.  Stated for files of one block each, so that the
\* manifest is the single block the FileRecord names.
C2_OwnChunksOnly ==
    (/\ result.op = "download"
     /\ ~result.password.some
     /\ get_file_by_path(result.path) # {}
     /\ Cardinality(files) = started
     /\ \A p \in Paths : uploaded[p].valid => Len(uploaded[p].blocks) = 1)
    => /\ result.fetched = uploaded[result.path].locs
       /\ result.ok
       /\ result.data = uploaded[result.path].data

\* C3: the FileRecord written by a successful upload carries the Merkle root of
\* the ordered fingerprints of all blocks of the buffer (the hash of the empty
\* byte string when there is no block).
C3_RootIsMerkle ==
    (result.op = "upload" /\ result.ok)
    => /\ get_file_by_path(result.path) # {}
       /\ FileOf(result.path).root_hash = compute_merkle_root(result.blocks)

\* every path with a FileRecord had all its blocks stored and recorded
C4_State ==
    \A p \in Paths :
        get_file_by_path(p) # {} =>
            /\ uploaded[p].valid
            /\ AllBlocksStored(uploaded[p].blocks, uploaded[p].locs)

C4_Action ==
    /\ (files' # files /\ tx.pc # "idle") =>
          /\ tx.pc = "insert_file"
          /\ tx.i = Len(tx.blocks)
          /\ AllBlocksStored(TxHashes, tx.locs)
          /\ get_file_by_path(tx.file_path) = {}
          /\ \E f \in files' : f.path = tx.file_path /\ files' = files \cup {f}
    /\ (tx.pc \in {"insert_block", "backend_upload", "insert_chunk"} /\ tx'.pc = "idle") =>
          /\ files' = files
          /\ result'.op = "upload"
          /\ ~result'.ok

\* C4: a FileRecord is present only for a path whose upload stored every block
\* on the backend and inserted every ChunkRecord; the transaction writes the
\* FileRecord only in its last step, after all blocks, and an upload that
\* fails at a block writes no FileRecord.
C4_FileOnlyAfterAllBlocks == []C4_State /\ [][C4_Action]_vars

\* C4 witness: an upload failed at its second block, after the first block was
\* stored and recorded, and the path has no FileRecord
C4_Witness ==
    /\ result.op = "upload"
    /\ ~result.ok
    /\ result.stage \in {"insert_block", "backend_upload", "insert_chunk"}
    /\ result.at = 1
    /\ get_file_by_path(result.path) = {}
    /\ \E j \in 1..Len(chunks) : chunks[j].block_hash = result.blocks[1]

\* a step that changes the chunk table, and a step that ends a backend upload
C5_Action ==
    /\ (chunks' # chunks) =>
          /\ tx.pc = "insert_chunk"
          /\ tx.location \in 1..Len(store)
          /\ store[tx.location].data = CurrentBlock.data
          /\ chunks' = Append(chunks,
                [id |-> Len(chunks) + 1, block_hash |-> CurrentBlock.hash,
                 platform |-> "local", location |-> tx.location,
                 is_parity |-> FALSE, uploaded_at |-> tx.timestamp])
    /\ (tx.pc = "backend_upload" /\ tx'.pc = "idle") =>
          /\ chunks' = chunks
          /\ blocks' = blocks
          /\ get_block(CurrentBlock.hash) # {}
          /\ result'.op = "upload"
          /\ ~result'.ok
          /\ result'.err \in {"Storage error", "cancelled"}

\* C5: a ChunkRecord is inserted only for the block whose backend upload has
\* returned a Location, and it records that Location; when the backend upload
\* fails or is cancelled no ChunkRecord is inserted and the transaction
\* returns the error (the BlockRecord stays).
C5_ChunkOnlyAfterLocation == [][C5_Action]_vars

\* C5 witness: the backend upload of a block was cancelled; its BlockRecord is
\* in the index and no ChunkRecord names its fingerprint
C5_Witness ==
    /\ result.op = "upload"
    /\ ~result.ok
    /\ result.stage = "backend_upload"
    /\ result.err = "cancelled"
    /\ get_block(result.blocks[result.at + 1]) # {}
    /\ get_chunks_for_block(result.blocks[result.at + 1]) = <<>>

\* the last step of an upload to a path that already has a FileRecord
C6_Action ==
    (/\ tx.pc = "insert_file"
     /\ get_file_by_path(tx.file_path) # {}
     /\ tx'.pc = "idle"
     /\ result'.err # "Database error")
    => /\ result'.ok
       /\ Cardinality({f \in files' : f.path = tx.file_path}) = 1
       /\ \A f \in files' :
             f.path = tx.file_path =>
                f.root_hash = RootHash(tx.blocks) /\ f.size = tx.original_size

\* C6: an upload to a path that already has a FileRecord succeeds (the index
\* itself not failing) and leaves exactly one FileRecord for the path, with
\* the root fingerprint and size of the new upload.
C6_ReuploadReplaces == [][C6_Action]_vars

\* C7: after a successful delete(path) the index has no FileRecord for path and
\* every chunk location of the file has been deleted on the backend, so that a
\* backend download of any of them fails.
C7_DeleteRemovesChunks ==
    (result.op = "delete" /\ result.ok)
    => /\ get_file_by_path(result.path) = {}
       /\ \A k \in 1..Len(uploaded[result.path].locs) :
             ~download_from_location(
                 [platform |-> "local", identifier |-> uploaded[result.path].locs[k]]).ok

\* the last operation was a download of an encrypted file of path p
EncryptedDownload(p) ==
    /\ result.op = "download"
    /\ result.path = p
    /\ get_file_by_path(p) # {}
    /\ uploaded[p].valid
    /\ uploaded[p].password.some

\* C8: upload(path, B) encrypted under P, then download(path, P) returns B, and
\* download(path, Q) with a password of another key fails with the crypto
\* integrity error.
C8_EncryptedRoundTrip ==
    \A p \in Paths :
        (EncryptedDownload(p) /\ result.password.some) =>
            IF derive_key_from_password(result.password.v, Salt)
                   = derive_key_from_password(uploaded[p].password.v, Salt)
            THEN result.ok /\ result.data = uploaded[p].data
            ELSE ~result.ok /\ result.err = "Crypto error"

C10_ChunkHasBlock ==
    \A j \in 1..Len(chunks) : \E b \in blocks : b.hash = chunks[j].block_hash

\* C10 witness: a file was uploaded and deleted, then an upload failed at its
\* second block; the index holds the chunks of both
C10_Witness ==
    /\ files_seq = 1
    /\ files = {}
    /\ result.op = "upload"
    /\ ~result.ok
    /\ result.at = 1
    /\ Len(chunks) >= 2

\* a step of insert_block whose statement was executed
C11_Action ==
    (result'.op = "insert_block" /\ result'.err # "Database error") =>
        LET block_record == result'.arg IN
        /\ result'.ok
        /\ Cardinality({b \in blocks' : b.hash = block_record.hash}) = 1
        /\ \A b \in blocks : b \in blocks'
        /\ (\E b \in blocks : b.hash = block_record.hash) => blocks' = blocks
        /\ (\A b \in blocks : b.hash # block_record.hash) =>
               blocks' = blocks \cup {block_record}

\* C11: insert_block succeeds when the fingerprint is already present, leaves
\* exactly one row for the fingerprint and leaves the size, encoding name and
\* creation timestamp of the first insert unchanged, even when the second
\* record carries different values; the fingerprint stays a key of blocks.
C11_InsertBlockWriteOnce ==
    /\ [](\A b1 \in blocks, b2 \in blocks : b1.hash = b2.hash => b1 = b2)
    /\ [][C11_Action]_vars

\* C11 witness: a second insert of a present fingerprint with other values
\* returned Ok and the row of the first insert is the one stored
C11_Witness ==
    /\ result.op = "insert_block"
    /\ result.ok
    /\ \E b \in blocks :
          /\ b.hash = result.arg.hash
          /\ b.size # result.arg.size
          /\ b.encoding_strategy # result.arg.encoding_strategy
          /\ b.created_at # result.arg.created_at

\* after a call of the manager: which backend it invoked
C12_State ==
    /\ result.op = "download_from_location" =>
          IF \E i \in 1..Len(backends) : backends[i] = result.arg.platform
          THEN /\ result.backend \in 1..Len(backends)
               /\ backends[result.backend] = result.arg.platform
          ELSE /\ result.backend = 0
               /\ ~result.ok
               /\ result.err = "No backend can handle this location"
    /\ result.op = "upload_to_backend" =>
          IF result.arg.backend_idx < Len(backends)
          THEN result.backend = result.arg.backend_idx + 1
          ELSE /\ result.backend = 0
               /\ ~result.ok
               /\ result.err = "Backend not found"

\* a call of the manager touches the root of the local backend only when the
\* backend it invoked is a local one, and only by an upload
C12_Action ==
    /\ result'.op = "download_from_location" => store' = store
    /\ (result'.op = "upload_to_backend" /\ store' # store) =>
          /\ result'.backend \in 1..Len(backends)
          /\ backends[result'.backend] = "local"
          /\ store' = Append(store, [data |-> result'.arg.block.data, present |-> TRUE])

\* C12: download_from_location invokes download only on a backend whose name()
\* is the platform of the location and fails with "No backend can handle this
\* location", invoking none, when no registered backend has that name;
\* upload_to_backend(i, block) invokes upload only on the i-th registered
\* backend and fails, invoking none, when i is out of range.
C12_ManagerRoutes == []C12_State /\ [][C12_Action]_vars

\* C12 witness: with a discord and a local backend registered, in that order,
\* a local location was routed to the second backend and downloaded
C12_Witness ==
    /\ Len(backends) >= 2
    /\ backends[1] = "discord"
    /\ backends[2] = "local"
    /\ result.op = "download_from_location"
    /\ result.arg.platform = "local"
    /\ result.backend = 2
    /\ result.ok

\* the files under the root directory that a step of upload leaves behind
C13_Action ==
    (Len(store') > Len(store)) =>
        /\ result'.op \in {"local_upload", "upload_to_backend"}
        /\ result'.ok
        /\ result'.location = Len(store) + 1
        /\ Len(store') = Len(store) + 1
        /\ \A id \in 1..Len(store) : store'[id] = store[id]

\* right after a local upload, its location downloads to the uploaded bytes
C13_State ==
    (result.op = "local_upload" /\ result.ok) =>
        /\ LocalDownload(result.location) = [ok |-> TRUE, data |-> result.arg.data]
        /\ \A id \in 1..Len(store) :
              (id # result.location /\ store[id].present /\ store[id].data = result.arg.data)
                  => LocalDownload(id) = LocalDownload(result.location)

\* C13: for the local backend download(upload(b)) returns exactly b's bytes;
\* an upload returns a location no earlier upload returned, so the same bytes
\* uploaded twice sit at two distinct locations that both download to them,
\* and an upload leaves the bytes at every earlier location as they were.
C13_LocalRoundTrip == []C13_State /\ [][C13_Action]_vars

\* C13 witness: the same bytes were uploaded twice and sit at two locations
C13_Witness ==
    /\ result.op = "local_upload"
    /\ result.ok
    /\ result.location = 2
    /\ result.arg.data # <<>>
    /\ LocalDownload(1) = [ok |-> TRUE, data |-> result.arg.data]
    /\ LocalDownload(2) = [ok |-> TRUE, data |-> result.arg.data]

\* C14: delete(location) on every backend returns success, also when the
\* underlying deletion fails (a location already deleted or never written).
C14_DeleteSwallowsFailure ==
    result.op \in {"local_delete", "discord_delete"} => result.ok

\* a download of a path that has no row in files
C15_Action ==
    (result'.op = "download" /\ \A f \in files : f.path # result'.path) =>
        /\ ~result'.ok
        /\ result'.err = "File not found"
        /\ result'.fetched = <<>>
        /\ result'.data = <<>>
        /\ UNCHANGED <<files, files_seq, blocks, chunks, store>>

\* C15: download(path) of a path without a FileRecord (never uploaded, or
\* uploaded and deleted) fails with "File not found", issues no backend
\* download and leaves the index unchanged.
C15_DownloadMissing == [][C15_Action]_vars

\* C15 witness: a path was uploaded and deleted, another path still has its
\* file, and the download of the deleted path failed with "File not found"
C15_Witness ==
    /\ result.op = "download"
    /\ ~result.ok
    /\ result.err = "File not found"
    /\ uploaded[result.path].valid
    /\ uploaded[result.path].locs # <<>>
    /\ files # {}
    /\ \A f \in files : f.path # result.path

\* the rows of chunks written so far by the running transaction are the last
\* tx.i rows of the table, one per block, in the order of the blocks
C16_State ==
    tx.pc # "idle" =>
        /\ tx.i <= Len(chunks)
        /\ \A k \in 1..tx.i :
              chunks[Len(chunks) - tx.i + k].block_hash = tx.blocks[k].hash

\* a step that inserts a ChunkRecord inserts the one of the block after the
\* blocks whose ChunkRecords the transaction has inserted
C16_Action ==
    (chunks' # chunks) =>
        /\ tx.i < Len(tx.blocks)
        /\ Len(chunks') = Len(chunks) + 1
        /\ SubSeq(chunks', 1, Len(chunks)) = chunks
        /\ chunks'[Len(chunks')].block_hash = tx.blocks[tx.i + 1].hash
        /\ chunks'[Len(chunks')].id = Len(chunks')
        /\ tx'.pc # "idle" => tx'.i = tx.i + 1

\* C16: within one upload transaction the ChunkRecord of block i is inserted
\* before the ChunkRecord of block i+1, so the order of the chunk insertions
\* is the order of the blocks in the buffer.
C16_ChunkOrder == []C16_State /\ [][C16_Action]_vars

\* C16 witness: an upload of two different blocks finished and the last two
\* rows of chunks are those of its first and second block
C16_Witness ==
    /\ result.op = "upload"
    /\ result.ok
    /\ Len(result.blocks) = 2
    /\ result.blocks[1] # result.blocks[2]
    /\ Len(chunks) >= 2
    /\ chunks[Len(chunks) - 1].block_hash = result.blocks[1]
    /\ chunks[Len(chunks)].block_hash = result.blocks[2]

\* the Merkle function as the data model words it: pair the consecutive
\* hashes of the level left to right, the last one with itself when it has no
\* partner, until one value remains
RECURSIVE MerkleRef(_)
MerkleRef(h) ==
    IF Len(h) = 0 THEN Hash(<<>>)
    ELSE IF Len(h) = 1 THEN h[1]
    ELSE MerkleRef([k \in 1..((Len(h) + 1) \div 2) |->
                       IF 2 * k <= Len(h)
                       THEN Hash(h[2 * k - 1] \o h[2 * k])
                       ELSE Hash(h[Len(h)] \o h[Len(h)])])

\* C17: compute_merkle_root is the reference Merkle function on every
\* sequence of fingerprints: hash of the empty byte string for none, h for
\* [h], pairwise hashing with the unpaired last element hashed against itself
\* otherwise; computing it again gives the same value.
C17_MerkleIsReference ==
    LET h == held_file.block_hashes IN
    /\ held_file.root_hash = MerkleRef(h)
    /\ compute_merkle_root(h) = held_file.root_hash
    /\ Len(h) = 0 => held_file.root_hash = Hash(<<>>)
    /\ Len(h) = 1 => held_file.root_hash = h[1]
    /\ Len(h) = 2 => held_file.root_hash = Hash(h[1] \o h[2])
    /\ Len(h) = 3 => held_file.root_hash = Hash(Hash(h[1] \o h[2]) \o Hash(h[3] \o h[3]))

\* C17 witness: a File of five fingerprints, an odd level twice over
C17_Witness ==
    LET h == held_file.block_hashes IN
    /\ result.op = "file_new"
    /\ Len(h) = 5
    /\ h[4] # h[5]
    /\ held_file.root_hash =
          Hash(Hash(Hash(h[1] \o h[2]) \o Hash(h[3] \o h[4]))
               \o Hash(Hash(h[5] \o h[5]) \o Hash(h[5] \o h[5])))

\* the sequence h with the elements at i and j exchanged
SwapAt(h, i, j) == [h EXCEPT ![i] = h[j], ![j] = h[i]]

\* C18: for every sequence of two or more fingerprints and every two
\* positions holding different fingerprints, the root of the sequence with
\* the two exchanged differs from the root of the sequence.
C18_MerkleOrder ==
    LET h == held_file.block_hashes IN
    \A i \in 1..Len(h), j \in 1..Len(h) :
        h[i] # h[j] => compute_merkle_root(SwapAt(h, i, j)) # held_file.root_hash

\* C18 witness: a File of three fingerprints, all different
C18_Witness ==
    LET h == held_file.block_hashes IN
    /\ result.op = "file_new"
    /\ Len(h) = 3
    /\ h[1] # h[2] /\ h[2] # h[3] /\ h[1] # h[3]
    /\ compute_merkle_root(SwapAt(h, 1, 3)) # held_file.root_hash

\* the Block that Block::new or Block::from_data has just returned
C19_State ==
    result.op = "block_new" =>
        /\ held_block.data = result.data
        /\ held_block.hash = Hash(result.data)
        /\ held_block.size = Len(result.data)
        /\ verify(held_block)

\* one bit of the buffer of a Block that verifies is flipped
C19_Action ==
    (result'.op = "flip_bit" /\ verify(held_block)) =>
        /\ held_block'.hash = held_block.hash
        /\ held_block'.data # held_block.data
        /\ ~verify(held_block')

\* C19: a Block built from bytes B has fingerprint hash(B) and size len(B),
\* so verify() is true; after a single bit of its buffer is flipped verify()
\* is false.
C19_BlockVerify == []C19_State /\ [][C19_Action]_vars

\* C19 witness: the top bit of the byte of a one-byte Block was flipped and
\* the Block does not verify
C19_Witness ==
    /\ result.op = "flip_bit"
    /\ \E d \in StringsUpTo(MaxLen) :
          /\ Len(d) = 1
          /\ held_block.hash = Hash(d)
          /\ held_block.data = <<d[1] + 128>>
    /\ ~verify(held_block)

\* s is a prefix of t
IsPrefix(s, t) == Len(s) <= Len(t) /\ SubSeq(t, 1, Len(s)) = s

\* a step of add_location
C20_Action ==
    result'.op = "add_location" =>
        LET location == result'.arg
            locs     == held_block.locations
        IN  /\ IsPrefix(locs, held_block'.locations)
            /\ (\E k \in 1..Len(locs) : locs[k] = location) => held_block' = held_block
            /\ (\A k \in 1..Len(locs) : locs[k] # location) =>
                   held_block' = [held_block EXCEPT !.locations = Append(locs, location)]

\* C20: after any sequence of add_location calls the locations of a Block
\* have no duplicates and keep the order of first insertion; add_location of
\* a location already present leaves the sequence unchanged.
C20_LocationsNoDuplicates ==
    /\ [](\A i \in 1..Len(held_block.locations), j \in 1..Len(held_block.locations) :
             held_block.locations[i] = held_block.locations[j] => i = j)
    /\ [][C20_Action]_vars

\* C20 witness: the location added last is the first of two or more, so the
\* call found it present and changed nothing
C20_Witness ==
    /\ result.op = "add_location"
    /\ Len(held_block.locations) >= 2
    /\ held_block.locations[1] = result.arg

\* a step of decrypt: the plaintext for the key and the EncryptedData of
\* encrypt, the integrity error otherwise
C21_Action ==
    result'.op = "decrypt" =>
        IF result'.arg = held_enc.key /\ held_enc.data = held_enc.returned
        THEN result'.ok /\ result'.data = held_enc.plaintext
        ELSE ~result'.ok /\ result'.err = "Decryption failed" /\ result'.data = <<>>

\* C21: decrypt(encrypt(B)) under the same key returns B; decrypting the
\* EncryptedData with one bit of its ciphertext flipped, or under another
\* key, fails with the crypto integrity error and returns no bytes.
C21_CryptoRoundTrip == [][C21_Action]_vars

\* C21 witness: a bit of the ciphertext of a non-empty plaintext was flipped
\* and decrypt under the key of encrypt failed
C21_Witness ==
    /\ result.op = "decrypt"
    /\ result.arg = held_enc.key
    /\ held_enc.plaintext # <<>>
    /\ held_enc.data # held_enc.returned
    /\ ~result.ok

\* a step of reconstruct on the shards of an encode
C22_Action ==
    result'.op = "reconstruct" =>
        IF Len(Present(held_shards.shards)) >= held_shards.data_shards
        THEN result'.ok /\ result'.data = held_shards.data
        ELSE ~result'.ok /\ result'.err = "Not enough shards to reconstruct"

\* C22: for all N >= 1, K >= 0 and every byte string B, encode(B) yields
\* shards from which reconstruct, with at least N of the N+K present and
\* original length len(B), returns B; with fewer than N present it fails
\* with the erasure-insufficient error.
C22_ErasureRoundTrip ==
    /\ [](result.op = "encode" => result.ok)
    /\ [][C22_Action]_vars

\* ceil(a / b)
CeilDiv(a, b) == (a + b - 1) \div b

\* C23: for all N >= 1, K >= 0 and every byte string B (the empty one and
\* lengths that are no multiple of N included) encode(B) succeeds and returns
\* N+K shards of length ceil(len(B)/N), the first N of which concatenated are
\* B followed by zero padding only.
C23_EncodeShape ==
    result.op = "encode" =>
        LET n      == result.arg[1]
            k      == result.arg[2]
            shards == held_shards.shards
            joined == Concat([i \in 1..n |-> shards[i].v])
        IN  /\ result.ok
            /\ Len(shards) = n + k
            /\ \A s \in 1..(n + k) : Len(shards[s].v) = CeilDiv(Len(result.data), n)
            /\ SubSeq(joined, 1, Len(result.data)) = result.data
            /\ \A c \in (Len(result.data) + 1)..Len(joined) : joined[c] = 0

\* C24: for every byte string B and all parameters (block_size >= 1, any
\* resolution, threshold in 0..255) encode(B) succeeds and decode of its
\* result by the same encoder succeeds and returns B.
C24_PixelRoundTrip ==
    /\ (result.op = "encode" /\ held_encoded.strategy = "pixel") => result.ok
    /\ (/\ result.op = "decode"
        /\ held_encoded.strategy = "pixel"
        /\ result.arg = held_encoded.encoder
        /\ HeaderOriginalSize(held_encoded.encoded) = Len(held_encoded.data))
       => (result.ok /\ result.data = held_encoded.data)

\* C25: decode of a container whose frames hold fewer bytes than the
\* original_size of its header fails (codec-truncated); it never returns a
\* byte string shorter than original_size.
C25_DecodeTruncated ==
    (result.op = "decode" /\ held_encoded.strategy = "pixel" /\ result.ok) =>
        Len(result.data) >= HeaderOriginalSize(held_encoded.encoded)

\* the frames of the container that are valid images
ContainerFrames(data) == ReadFrames(data, 12, HeaderFrameCount(data)).frames

\* C26: decode of a container with a frame that is a valid image of other
\* dimensions than the decoder's resolution fails (codec-format); no bit is
\* read from such a frame.
C26_DecodeOtherResolution ==
    (/\ result.op = "decode"
     /\ held_encoded.strategy = "pixel"
     /\ \E f \in 1..Len(ContainerFrames(held_encoded.encoded)) :
           LET frame == ContainerFrames(held_encoded.encoded)[f]
           IN  frame.width # result.arg.width \/ frame.height # result.arg.height)
    => ~result.ok

\* C27: the barcode-grid decoder is the inverse of its encoder: for every
\* byte string B, decode(encode(B)) succeeds and returns B.
C27_QrRoundTrip ==
    (result.op = "decode" /\ held_encoded.strategy = "qr") =>
        (result.ok /\ result.data = held_encoded.data)

\* C28: the Merkle root binds the manifest: no fingerprint sequence other
\* than the File's own (of another length in particular, as [a, b, c, c] for
\* [a, b, c]) has the File's root.
C28_MerkleBinds ==
    result.op = "file_new" =>
        \A other \in HashSeqs(MaxHashes) :
            other # held_file.block_hashes =>
                compute_merkle_root(other) # held_file.root_hash

\* UploadOptions with encrypt set and no password
NoPasswordOptions == [encoding |-> EncodingNone, encrypt |-> TRUE, password |-> None]

\* a call of upload with encrypt set and no password
C29_Action ==
    \A p \in Paths, d \in DataEnc :
        UploadStart(p, d, NoPasswordOptions) =>
            /\ result'.op = "upload"
            /\ result'.path = p
            /\ ~result'.ok
            /\ result'.err = "Password required for encryption"
            /\ tx' = Idle
            /\ UNCHANGED <<files, files_seq, blocks, chunks, store, rng, uploaded>>

\* C29: upload with options.encrypt set and no password returns an error
\* before any side effect: no BlockRecord, ChunkRecord or FileRecord is
\* inserted and no backend upload is invoked.
C29_NoPasswordNoEffect == [][C29_Action]_vars

\* C29 witness: an upload without password was refused on an index and a
\* backend that hold an earlier upload
C29_Witness ==
    /\ result.op = "upload"
    /\ result.err = "Password required for encryption"
    /\ files # {}
    /\ chunks # <<>>
    /\ store # <<>>

\* a step of delete_file whose statement was executed
C30_Action ==
    (result'.op = "delete_file" /\ result'.err # "Database error") =>
        /\ result'.ok
        /\ \A f \in files : f.path # result'.path => f \in files'
        /\ \A f \in files' : f \in files /\ f.path # result'.path
        /\ blocks' = blocks
        /\ chunks' = chunks
        /\ (\A f \in files : f.path # result'.path) => files' = files

====
